---- MODULE Spec2Model ----
(***************************************************************************)
(* Model of the ICD-10 WHO pipeline of codex-sync-etl:                     *)
(*   scripts/icd10who_processor.py  (main, fetch, load, validate, clean)   *)
(*   utils/common_functions.py      (basic_cleanup, savers, ensure_file)   *)
(*                                                                         *)
(* Text is modelled as a sequence of one-character strings.  A DataFrame   *)
(* cell is a record [na, s]: na = TRUE is pandas' missing value (NaN),     *)
(* otherwise s is the text.  The pandas semantics modelled is that of      *)
(* object-dtype columns (pandas 1.x / 2.x): astype(str) turns NaN into the *)
(* text "nan", and the .str accessors pass NaN through.                    *)
(***************************************************************************)
EXTENDS Naturals, Sequences, FiniteSets, TLC

VARIABLES
    entry,        \* which entry point runs: "main" or "ensure_file"
    pc,           \* position of the run
    url,          \* DATA_URL / os.getenv(url_env_var, ""): "" when not set
    fileState,    \* RAW_FILE / raw_path on disk: "absent", "partial", "complete"
    dirExists,    \* whether the parent directory of the raw file exists
    logging,      \* root logger: [dir, handlers]
    attempt,      \* loop variable of the retry loop
    last_error,   \* local last_error of the retry loop
    raised,       \* the exception that left the entry point (NoError if none)
    outcomes,     \* history: what each requests.get attempt of this run did
    file0,        \* history: fileState when the run started
    dir0,         \* history: dirExists when the run started
    input,        \* history: the rows as load_icd10_data read them
    raw_df,       \* main's raw_df
    valid_df,     \* main's valid_df
    invalid_df,   \* main's invalid_df
    clean_df,     \* main's clean_df
    invalidCsv,   \* output/errors/icd10who_invalid.csv as written by this run
    cleanCsv      \* output/csv/icd10who_clean.csv as written by this run

vars == <<entry, pc, url, fileState, dirExists, logging, attempt, last_error,
          raised, outcomes, file0, dir0, input, raw_df, valid_df, invalid_df,
          clean_df, invalidCsv, cleanCsv>>

fetchVars == <<url, fileState, dirExists, attempt, last_error, outcomes, file0, dir0>>
dataVars == <<input, raw_df, valid_df, invalid_df, clean_df>>
outVars == <<invalidCsv, cleanCsv>>

(***************************************************************************)
(* Bounds of the model.                                                    *)
(***************************************************************************)
\* longest row sequence validated and cleaned under SpecData
MaxRows == 3
\* longest file that main's load step reads under Spec
MainMaxRows == 1

(***************************************************************************)
(* Characters and Python's str methods.                                    *)
(***************************************************************************)
LowerSeq == <<"a","b","c","d","e","f","g","h","i","j","k","l","m",
              "n","o","p","q","r","s","t","u","v","w","x","y","z">>
UpperSeq == <<"A","B","C","D","E","F","G","H","I","J","K","L","M",
              "N","O","P","Q","R","S","T","U","V","W","X","Y","Z">>
LowerLetters == {LowerSeq[i] : i \in DOMAIN LowerSeq}
UpperLetters == {UpperSeq[i] : i \in DOMAIN UpperSeq}
Digits == {"0","1","2","3","4","5","6","7","8","9"}
Whitespace == {" ", "\t", "\n", "\r"}

CharUpper(c) ==
    IF c \in LowerLetters
    THEN UpperSeq[CHOOSE i \in DOMAIN LowerSeq : LowerSeq[i] = c]
    ELSE c

CharLower(c) ==
    IF c \in UpperLetters
    THEN LowerSeq[CHOOSE i \in DOMAIN UpperSeq : UpperSeq[i] = c]
    ELSE c

IsCased(c) == c \in LowerLetters \cup UpperLetters

RECURSIVE LStrip(_)
LStrip(s) ==
    IF s # <<>> /\ Head(s) \in Whitespace THEN LStrip(Tail(s)) ELSE s

RECURSIVE RStrip(_)
RStrip(s) ==
    IF s # <<>> /\ s[Len(s)] \in Whitespace
    THEN RStrip(SubSeq(s, 1, Len(s) - 1))
    ELSE s

\* str.strip()
StrStrip(s) == RStrip(LStrip(s))

\* str.upper()
StrUpper(s) == [i \in DOMAIN s |-> CharUpper(s[i])]

\* str.title(): a cased character is upper-cased when the character before it
\* is not cased, and lower-cased when it is
StrTitle(s) ==
    [i \in DOMAIN s |->
        IF ~IsCased(s[i]) THEN s[i]
        ELSE IF i > 1 /\ IsCased(s[i - 1]) THEN CharLower(s[i])
        ELSE CharUpper(s[i])]

(***************************************************************************)
(* ICD10_PATTERN = ^[A-Z][0-9][0-9](\.[0-9A-Z]{1,4})?$  under re.match.    *)
(* Python's $ matches at the end of the text and also just before a        *)
(* newline that ends the text.                                             *)
(***************************************************************************)
AtDollar(s, pos) ==
    \/ pos = Len(s) + 1
    \/ pos = Len(s) /\ s[pos] = "\n"

\* the optional group starting at pos, with k characters after the dot
SubcodeGroup(s, pos, k) ==
    /\ pos + k <= Len(s)
    /\ s[pos] = "."
    /\ \A j \in (pos + 1)..(pos + k) : s[j] \in Digits \cup UpperLetters

\* variant: letters accepted where the pattern asks for digits
ICD10_PATTERN_LETTERS(s) ==
    /\ Len(s) >= 3
    /\ s[1] \in UpperLetters
    /\ s[2] \in Digits \cup UpperLetters
    /\ s[3] \in Digits \cup UpperLetters
    /\ \/ AtDollar(s, 4)
       \/ \E k \in 1..4 : SubcodeGroup(s, 4, k) /\ AtDollar(s, 5 + k)

\* variant: {1,5} in place of {1,4}
ICD10_PATTERN_ALT(s) ==
    /\ Len(s) >= 3
    /\ s[1] \in UpperLetters
    /\ s[2] \in Digits
    /\ s[3] \in Digits
    /\ \/ AtDollar(s, 4)
       \/ \E k \in 1..5 : SubcodeGroup(s, 4, k) /\ AtDollar(s, 5 + k)

ICD10_PATTERN(s) ==
    /\ Len(s) >= 3
    /\ s[1] \in UpperLetters
    /\ s[2] \in Digits
    /\ s[3] \in Digits
    /\ \/ AtDollar(s, 4)
       \/ \E k \in 1..4 : SubcodeGroup(s, 4, k) /\ AtDollar(s, 5 + k)

(***************************************************************************)
(* Cells and the pandas Series operations the code uses.                   *)
(***************************************************************************)
NaN == [na |-> TRUE, s |-> <<>>]
Str(s) == [na |-> FALSE, s |-> s]

\* Series.isnull()
IsNull(c) == c.na

\* Series.astype(str)
AsTypeStr(c) == IF c.na THEN Str(<<"n", "a", "n">>) ELSE c

\* Series.str.strip(), .str.upper(), .str.title()
SeriesStrip(c) == IF c.na THEN c ELSE Str(StrStrip(c.s))
SeriesUpper(c) == IF c.na THEN c ELSE Str(StrUpper(c.s))
SeriesTitle(c) == IF c.na THEN c ELSE Str(StrTitle(c.s))

\* Series.str.match(ICD10_PATTERN, na=False)
SeriesMatch(c) == IF c.na THEN FALSE ELSE ICD10_PATTERN(c.s)

(***************************************************************************)
(* DataFrames: [columns, rows]; a row is [idx, Code, Description] (idx is  *)
(* the pandas index label, the row's position in the file).  A column that *)
(* is not in `columns` holds NaN in every row and is never read.           *)
(***************************************************************************)
NoError == [kind |-> "none", attempt |-> 0]
Error(k) == [kind |-> k, attempt |-> 0]

NoFrame == [columns |-> {}, rows |-> <<>>]

\* DataFrame.empty
IsEmpty(df) == df.columns = {} \/ df.rows = <<>>

\* line 183: df["Code"].astype(str).str.strip().str.upper()
NormalizeCode(c) == SeriesUpper(SeriesStrip(AsTypeStr(c)))

\* variant: only "Code" is required
MissingColumn_ONLY_CODE(df) == IF "Code" \notin df.columns THEN "Code" ELSE ""

\* lines 165-168: the first required column that is missing, "" if none
MissingColumn(df) ==
    IF "Code" \notin df.columns THEN "Code"
    ELSE IF "Description" \notin df.columns THEN "Description"
    ELSE ""

\* line 183: the assignment to df["Code"], made on the caller's DataFrame
AssignNormalizedCode(rows) ==
    [i \in DOMAIN rows |-> [rows[i] EXCEPT !.Code = NormalizeCode(@)]]

\* variant: repeated codes are dropped from the valid rows already here
ValidRows_DEDUP(rows) ==
    SelectSeq(rows, LAMBDA r : SeriesMatch(r.Code)
                               /\ \A q \in 1..Len(rows) :
                                    rows[q].Code = r.Code => q >= r.idx)

\* lines 184, 186: df[valid_mask].copy()
ValidRows(rows) == SelectSeq(rows, LAMBDA r : SeriesMatch(r.Code))

\* line 187: df[~valid_mask].copy()
InvalidRows(rows) == SelectSeq(rows, LAMBDA r : ~SeriesMatch(r.Code))

\* validate_icd10_data: what it raises, what it leaves in the caller's df,
\* and the two frames it returns
validate_icd10_data(df) ==
    IF MissingColumn(df) # ""
    THEN [raised |-> Error("ValueError: Missing required column: " \o MissingColumn(df)),
          df |-> df, valid |-> NoFrame, invalid |-> NoFrame]
    ELSE LET rows == AssignNormalizedCode(df.rows)
         IN [raised |-> NoError,
             df |-> [df EXCEPT !.rows = rows],
             valid |-> [columns |-> df.columns, rows |-> ValidRows(rows)],
             invalid |-> [columns |-> df.columns, rows |-> InvalidRows(rows)]]

\* lines 209-214: df.rename(columns={"Code": "code", "Description": "description"})
Rename(df) ==
    [columns |-> {IF c = "Code" THEN "code"
                  ELSE IF c = "Description" THEN "description" ELSE c
                  : c \in df.columns},
     rows |-> [i \in DOMAIN df.rows |->
                 [idx |-> df.rows[i].idx,
                  code |-> df.rows[i].Code,
                  description |-> df.rows[i].Description]]]

\* utils.basic_cleanup
basic_cleanup(df) ==
    [df EXCEPT !.rows =
        [i \in DOMAIN df.rows |->
            [df.rows[i] EXCEPT
                !.code = IF "code" \in df.columns
                         THEN SeriesUpper(SeriesStrip(AsTypeStr(@))) ELSE @,
                !.description = IF "description" \in df.columns
                                THEN SeriesTitle(SeriesStrip(AsTypeStr(@))) ELSE @]]]

\* line 220: df.dropna(subset=["code", "description"])
DropNa(df) ==
    [df EXCEPT !.rows = SelectSeq(@, LAMBDA r : ~IsNull(r.code) /\ ~IsNull(r.description))]

\* variant: keep="last"
DropDuplicates_KEEP_LAST(df) ==
    [df EXCEPT !.rows =
        SelectSeq(@, LAMBDA r : \A q \in 1..Len(df.rows) :
                        df.rows[q].code = r.code => df.rows[q].idx <= r.idx)]

\* line 224: df.drop_duplicates(subset=["code"]), keep="first"
DropDuplicates(df) ==
    [df EXCEPT !.rows =
        SelectSeq(@, LAMBDA r : \A q \in 1..Len(df.rows) :
                        df.rows[q].code = r.code => df.rows[q].idx >= r.idx)]

\* line 230: df["last_updated"] = <now>
Stamp(df, ts) ==
    [columns |-> df.columns \cup {"last_updated"},
     rows |-> [i \in DOMAIN df.rows |->
                 [idx |-> df.rows[i].idx,
                  code |-> df.rows[i].code,
                  description |-> df.rows[i].description,
                  last_updated |-> ts]]]

\* clean_icd10_data, with the value datetime.utcnow() gives
clean_icd10_data(df, ts) ==
    Stamp(DropDuplicates(DropNa(basic_cleanup(Rename(df)))), ts)

(***************************************************************************)
(* Inputs.  The files the loader reads are drawn from sample cells: codes  *)
(* around every edge of the pattern for one-row files, and for longer      *)
(* files a few codes that collide after normalisation.                     *)
(***************************************************************************)
WideCodes ==
    { NaN,
      Str(<<>>),
      Str(<<" ", "a", "0", "1", ".", "1", " ">>),
      Str(<<"B", "A", "D">>),
      Str(<<"a", "0", "1">>),
      Str(<<"A", "0", "1">>),
      Str(<<"A", "0", "1", "\n">>),
      Str(<<"A", "0">>),
      Str(<<"A", "0", "1", ".">>),
      Str(<<"A", "0", "1", ".", "1", "2", "3", "4">>),
      Str(<<"A", "0", "1", ".", "1", "2", "3", "4", "5">>),
      Str(<<"z", "9", "9", ".", "8", "b">>),
      Str(<<"A", "0", "1", ".", "1", "-">>),
      Str(<<"A", "0", "1", "2">>),
      Str(<<"1", "A", "0">>),
      Str(<<"A", "0", "1", " ", "x">>) }

DupCodes ==
    { NaN,
      Str(<<"a", "0", "1">>),
      Str(<<"A", "0", "1">>),
      Str(<<"B", "0", "2">>),
      Str(<<"B", "A", "D">>) }

Descriptions ==
    { NaN,
      Str(<<" ", "f", "o", "o", " ">>),
      Str(<<"b", "A", "r", " ", "x">>) }

Timestamps == {"2024-01-01 00:00:00", "2024-01-01 00:00:01"}

Cells(codes) == {[Code |-> c, Description |-> d] : c \in codes, d \in Descriptions}

\* pandas.read_csv gives the rows a RangeIndex
Indexed(cells) ==
    [i \in DOMAIN cells |->
        [idx |-> i, Code |-> cells[i].Code, Description |-> cells[i].Description]]

\* the files with both required columns, of at most n rows
FullFrames(n) ==
    {[columns |-> {"Code", "Description"}, rows |-> Indexed(<<c>>)] : c \in Cells(WideCodes)}
    \cup
    {[columns |-> {"Code", "Description"}, rows |-> Indexed(cs)] :
        cs \in UNION {[1..k -> Cells(DupCodes)] : k \in 0..n}}

\* a column of a file that has no such column
WithoutColumns(df, gone) ==
    [columns |-> df.columns \ gone,
     rows |-> [i \in DOMAIN df.rows |->
                 [idx |-> i,
                  Code |-> IF "Code" \in gone THEN NaN ELSE df.rows[i].Code,
                  Description |-> IF "Description" \in gone THEN NaN
                                  ELSE df.rows[i].Description]]]

\* files that lack a required column
PartialFrames ==
    {WithoutColumns([columns |-> {"Code", "Description"}, rows |-> Indexed(cs)], gone) :
        cs \in {<<>>, <<[Code |-> Str(<<"A", "0", "1">>),
                         Description |-> Str(<<" ", "f", "o", "o", " ">>)]>>},
        gone \in {{"Code"}, {"Description"}, {"Code", "Description"}}}

Frames(n) == FullFrames(n) \cup PartialFrames

(***************************************************************************)
(* The fetcher: ensure_raw_file_exists + download_icd10_file (main), and   *)
(* utils.ensure_file, which holds the same loop.                           *)
(***************************************************************************)
\* download_icd10_file(..., retries: int = 3), ensure_file(..., retries: int = 3)
retries == 3

SourceUrl == "https://who.example/icd10who_codes_2024.csv"

\* what one pass of the loop body can do
Failures == {"ConnectionError", "HTTPError", "ValueError: Downloaded file is empty",
             "OSError: open", "OSError: write"}
Outcomes == Failures \cup {"ok"}

\* variant: the existence check is missing
FileExists_NEVER(fs) == FALSE

\* Path.exists()
FileExists(fs) == fs # "absent"

\* for attempt in range(1, retries + 1)
InLoop(a) == a <= retries

\* variant: the first error is kept
Caught_KEEP_FIRST(prev, e) == IF prev = NoError THEN e ELSE prev

\* except Exception as e: last_error = e
Caught(prev, e) == e

\* Path.write_bytes: the file is opened for writing (created or truncated)
\* and then written; what is on disk after each outcome of an attempt
DiskAfter(fs, o) ==
    IF o = "ok" THEN "complete"
    ELSE IF o = "OSError: write" THEN "partial"
    ELSE fs

NoCsv == [written |-> FALSE, lines |-> <<>>]

TypeOK ==
    /\ entry \in {"main", "ensure_file"}
    /\ pc \in {"start", "fetch", "download", "load", "validate", "save_invalid",
               "clean", "save_clean", "done", "failed"}
    /\ url \in {"", SourceUrl}
    /\ fileState \in {"absent", "partial", "complete"}
    /\ dirExists \in BOOLEAN
    /\ attempt \in 0..(retries + 1)
    /\ Len(outcomes) <= retries

Init ==
    /\ entry \in {"main", "ensure_file"}
    /\ pc = IF entry = "main" THEN "start" ELSE "fetch"
    /\ url \in {"", SourceUrl}
    /\ fileState \in {"absent", "complete"}
    /\ dirExists \in BOOLEAN
    /\ fileState = "complete" => dirExists
    /\ logging = [dir |-> FALSE, handlers |-> FALSE]
    /\ attempt = 0
    /\ last_error = NoError
    /\ raised = NoError
    /\ outcomes = <<>>
    /\ file0 = fileState
    /\ dir0 = dirExists
    /\ input = NoFrame
    /\ raw_df = NoFrame
    /\ valid_df = NoFrame
    /\ invalid_df = NoFrame
    /\ clean_df = NoFrame
    /\ invalidCsv = NoCsv
    /\ cleanCsv = NoCsv

\* main, line 242: setup_logging()
SetupLogging ==
    /\ pc = "start"
    /\ logging' = [dir |-> TRUE, handlers |-> TRUE]
    /\ pc' = "fetch"
    /\ UNCHANGED <<entry, raised, fetchVars, dataVars, outVars>>

\* the entry point returns: main goes on to load, ensure_file is done
Returned == IF entry = "main" THEN "load" ELSE "done"

\* ensure_raw_file_exists lines 126-128, ensure_file lines 81-83
UseExistingFile ==
    /\ pc = "fetch"
    /\ FileExists(fileState)
    /\ pc' = Returned
    /\ UNCHANGED <<entry, logging, raised, fetchVars, dataVars, outVars>>

\* ensure_raw_file_exists lines 132-133 with download_icd10_file lines 89-99,
\* ensure_file lines 85-91: the URL is set, the parent directory is made
StartDownload ==
    /\ pc = "fetch"
    /\ ~FileExists(fileState)
    /\ url # ""
    /\ dirExists' = TRUE
    /\ last_error' = NoError
    /\ attempt' = 1
    /\ pc' = "download"
    /\ UNCHANGED <<entry, logging, raised, url, fileState, outcomes, file0, dir0,
                   dataVars, outVars>>

\* ensure_raw_file_exists lines 136-138, ensure_file lines 86-87
MissingInput ==
    /\ pc = "fetch"
    /\ ~FileExists(fileState)
    /\ url = ""
    /\ raised' = Error("FileNotFoundError")
    /\ pc' = "failed"
    /\ UNCHANGED <<entry, logging, fetchVars, dataVars, outVars>>

\* one pass of the loop body: download_icd10_file lines 100-115,
\* ensure_file lines 92-104
DownloadAttempt ==
    /\ pc = "download"
    /\ InLoop(attempt)
    /\ \E o \in Outcomes :
        /\ outcomes' = Append(outcomes, o)
        /\ fileState' = DiskAfter(fileState, o)
        /\ IF o = "ok"
           THEN /\ pc' = Returned
                /\ UNCHANGED <<attempt, last_error>>
           ELSE /\ last_error' = Caught(last_error, [kind |-> o, attempt |-> attempt])
                /\ attempt' = attempt + 1
                /\ pc' = "download"
    /\ UNCHANGED <<entry, logging, raised, url, dirExists, file0, dir0, dataVars, outVars>>

\* the loop is over: download_icd10_file lines 117-118, ensure_file lines 105-106
RaiseLastError ==
    /\ pc = "download"
    /\ ~InLoop(attempt)
    /\ raised' = last_error
    /\ pc' = "failed"
    /\ UNCHANGED <<entry, logging, fetchVars, dataVars, outVars>>

(***************************************************************************)
(* The pipeline of main after the fetch.                                   *)
(***************************************************************************)
\* DataFrame.to_csv(index=False): the index is not written, NaN is written
\* as an empty field
CsvField(c) == IF c.na THEN <<>> ELSE c.s

InvalidCsvLines(df) ==
    [i \in DOMAIN df.rows |->
        [Code |-> CsvField(df.rows[i].Code),
         Description |-> CsvField(df.rows[i].Description)]]

CleanCsvLines(df) ==
    [i \in DOMAIN df.rows |->
        [code |-> CsvField(df.rows[i].code),
         description |-> CsvField(df.rows[i].description),
         last_updated |-> df.rows[i].last_updated]]

\* main line 251, load_icd10_data: pd.read_csv(filepath, dtype=str) gives a
\* frame or raises, and main's except clause re-raises
Load ==
    /\ pc = "load"
    /\ \/ /\ \E df \in Frames(MainMaxRows) :
                /\ raw_df' = df
                /\ input' = df
          /\ pc' = "validate"
          /\ UNCHANGED raised
       \/ /\ raised' = Error("ParserError")
          /\ pc' = "failed"
          /\ UNCHANGED <<raw_df, input>>
    /\ UNCHANGED <<entry, logging, fetchVars, valid_df, invalid_df, clean_df, outVars>>

\* main line 254: valid_df, invalid_df = validate_icd10_data(raw_df)
Validate ==
    /\ pc = "validate"
    /\ LET r == validate_icd10_data(raw_df)
       IN IF r.raised # NoError
          THEN /\ raised' = r.raised
               /\ pc' = "failed"
               /\ UNCHANGED <<raw_df, valid_df, invalid_df>>
          ELSE /\ raw_df' = r.df
               /\ valid_df' = r.valid
               /\ invalid_df' = r.invalid
               /\ pc' = "save_invalid"
               /\ UNCHANGED raised
    /\ UNCHANGED <<entry, logging, fetchVars, input, clean_df, outVars>>

\* main lines 257-258 with utils.save_invalid_rows: nothing is written for an
\* empty frame; the write can fail
SaveInvalid ==
    /\ pc = "save_invalid"
    /\ \/ /\ IsEmpty(invalid_df)
          /\ pc' = "clean"
          /\ UNCHANGED <<invalidCsv, raised>>
       \/ /\ ~IsEmpty(invalid_df)
          /\ invalidCsv' = [written |-> TRUE, lines |-> InvalidCsvLines(invalid_df)]
          /\ pc' = "clean"
          /\ UNCHANGED raised
       \/ /\ ~IsEmpty(invalid_df)
          /\ raised' = Error("OSError: save_invalid_rows")
          /\ pc' = "failed"
          /\ UNCHANGED invalidCsv
    /\ UNCHANGED <<entry, logging, fetchVars, dataVars, cleanCsv>>

\* main line 261: clean_df = clean_icd10_data(valid_df)
Clean ==
    /\ pc = "clean"
    /\ \E ts \in Timestamps : clean_df' = clean_icd10_data(valid_df, ts)
    /\ pc' = "save_clean"
    /\ UNCHANGED <<entry, logging, raised, fetchVars, input, raw_df, valid_df,
                   invalid_df, outVars>>

\* main line 264 with utils.save_to_formats: the write can fail
SaveClean ==
    /\ pc = "save_clean"
    /\ \/ /\ cleanCsv' = [written |-> TRUE, lines |-> CleanCsvLines(clean_df)]
          /\ pc' = "done"
          /\ UNCHANGED raised
       \/ /\ raised' = Error("OSError: save_to_formats")
          /\ pc' = "failed"
          /\ UNCHANGED cleanCsv
    /\ UNCHANGED <<entry, logging, fetchVars, dataVars, invalidCsv>>

Fetch == UseExistingFile \/ StartDownload \/ MissingInput \/ DownloadAttempt \/ RaiseLastError

Pipeline == Load \/ Validate \/ SaveInvalid \/ Clean \/ SaveClean

Next == SetupLogging \/ Fetch \/ Pipeline

\* a run of main, or a call of utils.ensure_file
Spec == Init /\ [][Next]_vars

(***************************************************************************)
(* validate_icd10_data and clean_icd10_data on wider inputs: main after a  *)
(* load from an existing file, over every frame of at most MaxRows rows.   *)
(***************************************************************************)
InitData ==
    /\ entry = "main"
    /\ pc = "validate"
    /\ url = ""
    /\ fileState = "complete"
    /\ dirExists = TRUE
    /\ logging = [dir |-> TRUE, handlers |-> TRUE]
    /\ attempt = 0
    /\ last_error = NoError
    /\ raised = NoError
    /\ outcomes = <<>>
    /\ file0 = "complete"
    /\ dir0 = TRUE
    /\ raw_df \in Frames(MaxRows)
    /\ input = raw_df
    /\ valid_df = NoFrame
    /\ invalid_df = NoFrame
    /\ clean_df = NoFrame
    /\ invalidCsv = NoCsv
    /\ cleanCsv = NoCsv

NextData == Validate \/ SaveInvalid \/ Clean \/ SaveClean

SpecData == InitData /\ [][NextData]_vars

(***************************************************************************)
(* Vocabulary of the properties.                                           *)
(***************************************************************************)
SaveErrors == {"OSError: save_invalid_rows", "OSError: save_to_formats"}

\* validate_icd10_data has returned its two frames
ValidateReturned ==
    \/ pc \in {"save_invalid", "clean", "save_clean", "done"}
    \/ pc = "failed" /\ raised.kind \in SaveErrors

\* clean_icd10_data has returned clean_df
CleanReturned ==
    \/ pc \in {"save_clean", "done"}
    \/ pc = "failed" /\ raised.kind = "OSError: save_to_formats"

\* how many rows of frame df carry index label i
Count(df, i) == Cardinality({j \in DOMAIN df.rows : df.rows[j].idx = i})

InFrame(df, i) == Count(df, i) > 0

\* the shape the specification gives for a code: one letter A-Z, two digits,
\* then nothing, or a dot and 1 to 4 characters from 0-9 / A-Z
IcdShape(s) ==
    /\ Len(s) \in {3} \cup 5..8
    /\ s[1] \in UpperLetters
    /\ s[2] \in Digits /\ s[3] \in Digits
    /\ Len(s) > 3 => /\ s[4] = "."
                     /\ \A j \in 5..Len(s) : s[j] \in Digits \cup UpperLetters

\* a non-null code after trimming whitespace and upper-casing
Trimmed(c) == StrUpper(StrStrip(c.s))

C2_ValidIffPattern ==
    ValidateReturned =>
        /\ \A i \in DOMAIN input.rows :
            (~input.rows[i].Code.na /\ ~input.rows[i].Description.na)
                => /\ InFrame(valid_df, i) <=> IcdShape(Trimmed(input.rows[i].Code))
                   /\ InFrame(invalid_df, i) <=> ~IcdShape(Trimmed(input.rows[i].Code))
        /\ \A j \in DOMAIN valid_df.rows :
            ~valid_df.rows[j].Code.na /\ IcdShape(valid_df.rows[j].Code.s)

C2_Witness ==
    /\ ValidateReturned
    /\ \E i \in DOMAIN input.rows :
        /\ ~input.rows[i].Code.na /\ ~input.rows[i].Description.na
        /\ input.rows[i].Code.s # Trimmed(input.rows[i].Code)
        /\ InFrame(valid_df, i)
    /\ \E i \in DOMAIN input.rows :
        /\ ~input.rows[i].Code.na /\ ~input.rows[i].Description.na
        /\ InFrame(invalid_df, i)

(***************************************************************************)
(* C3: when validate returns, every input record is in exactly one of the  *)
(* two partitions, exactly once, and the sizes add up to the input's.      *)
(***************************************************************************)
C3_PartitionTotalDisjoint ==
    ValidateReturned =>
        /\ Len(valid_df.rows) + Len(invalid_df.rows) = Len(input.rows)
        /\ \A i \in DOMAIN input.rows : Count(valid_df, i) + Count(invalid_df, i) = 1
        /\ \A j \in DOMAIN valid_df.rows : valid_df.rows[j].idx \in DOMAIN input.rows
        /\ \A j \in DOMAIN invalid_df.rows : invalid_df.rows[j].idx \in DOMAIN input.rows

C3_Witness ==
    /\ ValidateReturned
    /\ \E i, k \in DOMAIN input.rows :
        /\ i # k
        /\ InFrame(valid_df, i) /\ InFrame(valid_df, k)
        /\ Trimmed(input.rows[i].Code) = Trimmed(input.rows[k].Code)
    /\ \E i \in DOMAIN input.rows : input.rows[i].Code.na /\ InFrame(invalid_df, i)

(***************************************************************************)
(* C4: in the output of clean_icd10_data no code occurs on two rows; every *)
(* code of a valid row occurs; the row kept for a code is the first valid  *)
(* input row with that code after trim + upper-case, with that row's       *)
(* description; and the kept rows are in input order.                      *)
(***************************************************************************)
C4_FirstOccurrenceWins ==
    CleanReturned =>
        /\ \A j, k \in DOMAIN clean_df.rows :
            clean_df.rows[j].code = clean_df.rows[k].code => j = k
        /\ \A i \in DOMAIN input.rows :
            InFrame(valid_df, i) =>
                \E j \in DOMAIN clean_df.rows :
                    /\ clean_df.rows[j].code = Str(Trimmed(input.rows[i].Code))
                    /\ clean_df.rows[j].idx <= i
        /\ \A j \in DOMAIN clean_df.rows :
            LET r == clean_df.rows[j]
            IN /\ InFrame(valid_df, r.idx)
               /\ r.code = Str(Trimmed(input.rows[r.idx].Code))
               /\ ~input.rows[r.idx].Description.na =>
                    r.description = Str(StrTitle(StrStrip(input.rows[r.idx].Description.s)))
        /\ \A j, k \in DOMAIN clean_df.rows :
            j < k => clean_df.rows[j].idx < clean_df.rows[k].idx

C4_Witness ==
    /\ CleanReturned
    /\ Len(clean_df.rows) = 2
    /\ \E i, k \in DOMAIN input.rows :
        /\ i < k
        /\ InFrame(valid_df, i) /\ InFrame(valid_df, k)
        /\ input.rows[i].Code # input.rows[k].Code
        /\ Trimmed(input.rows[i].Code) = Trimmed(input.rows[k].Code)
        /\ input.rows[i].Description # input.rows[k].Description
        /\ ~input.rows[i].Description.na
        /\ InFrame(clean_df, i) /\ ~InFrame(clean_df, k)

(***************************************************************************)
(* C5: with the file absent and a URL set, at most 3 attempts are made;    *)
(* an attempt is made only after failed ones, so the call returns at the   *)
(* first success; a failure before the 3rd attempt is followed by another  *)
(* attempt; after the 3rd failure the call raises the 3rd attempt's error. *)
(***************************************************************************)
LastOutcome == outcomes[Len(outcomes)]

C5_BoundedRetry ==
    /\ Len(outcomes) <= retries
    /\ \A i \in 1..(Len(outcomes) - 1) : outcomes[i] \in Failures
    /\ (outcomes # <<>> /\ LastOutcome = "ok")
        => /\ pc # "download"
           /\ raised.kind \notin Failures
           /\ entry = "ensure_file" => pc = "done"
    /\ (outcomes # <<>> /\ LastOutcome \in Failures /\ Len(outcomes) < retries)
        => pc = "download" /\ attempt = Len(outcomes) + 1 /\ raised = NoError
    /\ (outcomes # <<>> /\ LastOutcome \in Failures /\ Len(outcomes) = retries)
        => \/ pc = "download" /\ raised = NoError
           \/ pc = "failed" /\ raised = [kind |-> outcomes[retries], attempt |-> retries]
    /\ raised.kind \in Failures
        => pc = "failed" /\ Len(outcomes) = retries /\ raised.attempt = retries

C5_Witness ==
    /\ pc = "failed"
    /\ file0 = "absent" /\ url # ""
    /\ Len(outcomes) = retries
    /\ outcomes[1] # outcomes[retries] /\ outcomes[2] # outcomes[retries]
    /\ raised = [kind |-> outcomes[retries], attempt |-> retries]

(***************************************************************************)
(* C6: a request is made only when the file was absent and the URL is set; *)
(* an existing file is returned untouched with no request; with the file   *)
(* absent and no URL the call fails with FileNotFoundError, having made no *)
(* request and created neither the file nor its directory.                 *)
(***************************************************************************)
FetchOver == pc \notin {"start", "fetch", "download"}

C6_RequestOnlyWhenAbsentAndUrl ==
    /\ outcomes # <<>> => file0 = "absent" /\ url # ""
    /\ file0 # "absent"
        => /\ outcomes = <<>>
           /\ fileState = file0
           /\ dirExists = dir0
           /\ raised.kind \notin Failures \cup {"FileNotFoundError"}
           /\ (FetchOver /\ entry = "ensure_file") => pc = "done"
    /\ (file0 = "absent" /\ url = "" /\ FetchOver)
        => /\ pc = "failed"
           /\ raised = Error("FileNotFoundError")
           /\ outcomes = <<>>
           /\ fileState = "absent"
           /\ dirExists = dir0

C6_Witness ==
    /\ pc = "failed"
    /\ raised = Error("FileNotFoundError")
    /\ file0 = "absent" /\ url = "" /\ ~dir0 /\ ~dirExists
    /\ outcomes = <<>>

(***************************************************************************)
(* C7: in a run of main, a failure of the fetch, the load or the validate  *)
(* step ends the run with that failure raised and with neither output file *)
(* written; an output file is written only after validate has returned,    *)
(* which it does only for an input that has both required columns.         *)
(***************************************************************************)
EarlyErrors ==
    Failures \cup {"FileNotFoundError", "ParserError",
                   "ValueError: Missing required column: Code",
                   "ValueError: Missing required column: Description"}

C7_NoOutputOnEarlyFailure ==
    entry = "main" =>
        /\ raised # NoError <=> pc = "failed"
        /\ raised.kind \in EarlyErrors
            => ~invalidCsv.written /\ ~cleanCsv.written
        /\ (invalidCsv.written \/ cleanCsv.written)
            => ValidateReturned /\ MissingColumn(input) = ""
        /\ (pc \notin {"start", "fetch", "download", "load", "validate"}
                /\ raised.kind \notin Failures \cup {"FileNotFoundError", "ParserError"}
                /\ {"Code", "Description"} \ input.columns # {})
            => /\ pc = "failed"
               /\ raised.kind \in {"ValueError: Missing required column: Code",
                                   "ValueError: Missing required column: Description"}
               /\ ~invalidCsv.written /\ ~cleanCsv.written

C7_Witness ==
    /\ entry = "main"
    /\ pc = "failed"
    /\ raised.kind = "ValueError: Missing required column: Description"
    /\ input.rows # <<>>
    /\ ~invalidCsv.written /\ ~cleanCsv.written

(***************************************************************************)
(* C8 as stated: validate_icd10_data leaves the records it was given as    *)
(* they were, and the invalid partition carries the original field values. *)
(***************************************************************************)
C8_InputNotMutated ==
    ValidateReturned =>
        /\ raw_df = input
        /\ \A j \in DOMAIN invalid_df.rows :
            invalid_df.rows[j] = input.rows[invalid_df.rows[j].idx]

(***************************************************************************)
(* C9 as stated: no row of the output of clean_icd10_data comes from a     *)
(* record whose Code or Description was null when the function was called. *)
(***************************************************************************)
C9_NullRowsDropped ==
    CleanReturned =>
        \A j \in DOMAIN valid_df.rows :
            (valid_df.rows[j].Code.na \/ valid_df.rows[j].Description.na)
                => ~InFrame(clean_df, valid_df.rows[j].idx)

(***************************************************************************)
(* C10 as stated: when all 3 attempts of a call fail, the call raises the  *)
(* last error and leaves no file, complete or partial, at the destination; *)
(* the destination changes only in an attempt whose response was good (the *)
(* attempts that reach write_bytes).                                       *)
(***************************************************************************)
C10_NoFileAfterExhaustion ==
    /\ (pc = "failed" /\ Len(outcomes) = retries
            /\ \A i \in DOMAIN outcomes : outcomes[i] \in Failures)
        => /\ raised = [kind |-> outcomes[retries], attempt |-> retries]
           /\ fileState = "absent"
    /\ fileState # file0
        => \E i \in DOMAIN outcomes : outcomes[i] \in {"ok", "OSError: open", "OSError: write"}

====
